---- MODULE Spec2Model ----
(***************************************************************************)
(* The durable lease-based request queue of filmdex:                       *)
(* PrismaRequestQueueStorage over the RequestQueue table (PostgreSQL).     *)
(*                                                                         *)
(* Every Prisma call is one SQL statement and is one atomic step.  An      *)
(* operation that awaits two Prisma calls (next, markFailed, retry) is two *)
(* steps of the calling process and other processes may run in between:    *)
(* next() opens an interactive transaction without an isolation level, so  *)
(* it runs at PostgreSQL's default READ COMMITTED and its findFirst takes  *)
(* no row lock.                                                            *)
(*                                                                         *)
(* Priorities are in tenths (0.5 is 5).  Time is counted in ticks of half  *)
(* the processing timeout.  Nullable columns hold <<>> (null) or <<v>>.    *)
(***************************************************************************)
EXTENDS Integers, Sequences, FiniteSets, TLC

\* ---- bounds of the model ----
MaxItems == 3        \* ids the table can ever hand out
LeaseItems == 1      \* rows enqueued under Spec and SpecAnyCall
ResolveItems == 1    \* rows enqueued under SpecResolve, SpecRetry and SpecGone
OrderItems == 3      \* rows enqueued under SpecOrder
DedupItems == 3      \* rows enqueued under SpecDedup and SpecBatch
SweepItems == 2      \* rows enqueued under SpecSweep, SpecScope and SpecStats
MaxBatch == 2        \* requests in one enqueueBatch call
MaxTime == 2         \* last tick of the clock
MaxRetryCount == 4   \* retry() and the sweep are not called on a row beyond this count
MaxRequeues == 1     \* SpecRequeue: retry() is called on a row this many times

\* ---- configuration set by the constructor ----
DefaultPriority == 5
RetryLimit == 3
ProcessingTimeout == 1
DefaultMaxRetries == 3

\* ---- take of the findMany of getStats: 100 rows, scaled to a table of MaxItems rows ----
StatsTake == 2

Null == <<>>
Some(v) == <<v>>
ValueOf(n) == n[1]

Statuses == {"PENDING", "PROCESSING", "PROCESSED", "FAILED", "RETRYING"}

Ids == 1..MaxItems
NoRow == [absent |-> TRUE]
Procs == {"w1", "w2"}
Queues == {"tmdb", "tmdb-test"}
NoLocal == [op |-> "none"]

VARIABLES
  rows,     \* the RequestQueue table: id -> row, or NoRow when no such row exists
  nextId,   \* the next fresh cuid
  now,      \* the wall clock
  pc,       \* per calling process: where it is inside a multi-statement operation
  loc,      \* per calling process: the operation's arguments and what it has read
  held,     \* per calling process: the id next() returned to it and it has not resolved, or 0
  outcome,  \* how the most recent call ended: "ok", "duplicate", "empty", "not_found"
  lease     \* history: per id, the processes next() handed the row to since it last left PROCESSING

vars == <<rows, nextId, now, pc, loc, held, outcome, lease>>

Exists(i) == rows[i] # NoRow
RowsOf(q) == {i \in Ids : Exists(i) /\ rows[i].queueName = q}
WithStatus(q, s) == {i \in RowsOf(q) : rows[i].status = s}

\* prisma update({ where: { id }, data }): the named columns change, the rest stay
Update(r, data) == [f \in DOMAIN r |-> IF f \in DOMAIN data THEN data[f] ELSE r[f]]

\* what an operation keeps of the row findUnique loaded
Loaded(r) ==
  [status |-> r.status, retryCount |-> r.retryCount,
   maxRetries |-> r.maxRetries, priority |-> r.priority]

\* lease bookkeeping once the table has become new: w was handed row got
LeaseAfter(new, w, got) ==
  [i \in Ids |->
     IF new[i] = NoRow \/ new[i].status # "PROCESSING" THEN {}
     ELSE IF i = got THEN lease[i] \cup {w}
     ELSE lease[i]]

\* the caller is done with the row it resolved
Resolved(w, id) == IF held[w] = id THEN [held EXCEPT ![w] = 0] ELSE held

----
\* enqueue: one create; P2002 (unique constraint) is swallowed

PriorityOrDefault(p) == IF p = Null THEN DefaultPriority ELSE ValueOf(p)

NewRow(q, u, k, p) ==
  [queueName |-> q, url |-> u, uniqueKey |-> k, priority |-> p,
   status |-> "PENDING", retryCount |-> 0, maxRetries |-> DefaultMaxRetries,
   lastError |-> Null, createdAt |-> now,
   processingStartedAt |-> Null, processingCompletedAt |-> Null]

UniqueViolation_NullsCollide(q, k) ==
  \E i \in RowsOf(q) : rows[i].uniqueKey = k

UniqueViolation_None(q, k) == FALSE

\* the @@unique([queueName, uniqueKey]) index: null keys never collide
UniqueViolation(q, k) ==
  k # Null /\ \E i \in RowsOf(q) : rows[i].uniqueKey = k

Enqueue(q, u, k, p) ==
  IF UniqueViolation(q, k)
  THEN /\ outcome' = "duplicate"
       /\ UNCHANGED <<rows, nextId, now, pc, loc, held, lease>>
  ELSE /\ nextId \in Ids
       /\ rows' = [rows EXCEPT ![nextId] = NewRow(q, u, k, PriorityOrDefault(p))]
       /\ nextId' = nextId + 1
       /\ lease' = LeaseAfter(rows', "none", 0)
       /\ outcome' = "ok"
       /\ UNCHANGED <<now, pc, loc, held>>

----
\* enqueueBatch: one createMany with skipDuplicates (INSERT .. ON CONFLICT DO
\* NOTHING): the rows are inserted in order, a row that collides with a stored
\* row or with an earlier row of the batch is skipped

\* one row of a create or createMany goes into table tbl under the next id nid
Create(tbl, nid, q, d) ==
  IF d.uniqueKey # Null /\ \E i \in Ids : /\ tbl[i] # NoRow
                                          /\ tbl[i].queueName = q
                                          /\ tbl[i].uniqueKey = d.uniqueKey
  THEN [rows |-> tbl, nextId |-> nid]
  ELSE [rows |-> [tbl EXCEPT ![nid] = NewRow(q, d.url, d.uniqueKey, d.priority)],
        nextId |-> nid + 1]

RECURSIVE CreateMany(_, _, _, _)
CreateMany(tbl, nid, q, data) ==
  IF data = <<>> THEN [rows |-> tbl, nextId |-> nid]
  ELSE LET one == Create(tbl, nid, q, Head(data))
       IN  CreateMany(one.rows, one.nextId, q, Tail(data))

\* uniqueKey: request.uniqueKey || request.url
BatchKey(request) ==
  IF request.uniqueKey = Null THEN Some(request.url) ELSE request.uniqueKey

BatchData(requests, priority) ==
  [n \in 1..Len(requests) |->
     [url |-> requests[n].url, uniqueKey |-> BatchKey(requests[n]),
      priority |-> PriorityOrDefault(priority)]]

EnqueueBatch(q, requests, priority) ==
  LET new == CreateMany(rows, nextId, q, BatchData(requests, priority))
  IN  /\ nextId + Len(requests) - 1 \in Ids
      /\ rows' = new.rows
      /\ nextId' = new.nextId
      /\ lease' = LeaseAfter(rows', "none", 0)
      /\ outcome' = "ok"
      /\ UNCHANGED <<now, pc, loc, held>>

\* uniqueKey: request.uniqueKey, as enqueue passes it to create
EnqueueData(requests, priority) ==
  [n \in 1..Len(requests) |->
     [url |-> requests[n].url, uniqueKey |-> requests[n].uniqueKey,
      priority |-> PriorityOrDefault(priority)]]

\* enqueue(request, priority) called for each request in turn
EnqueueEach(tbl, nid, q, requests, priority) ==
  CreateMany(tbl, nid, q, EnqueueData(requests, priority))

----
\* next: findFirst, then update by id, in one interactive transaction

OrderedBefore_CreatedOnly(a, b) ==
  a.createdAt <= b.createdAt

\* orderBy: [{ priority: 'desc' }, { createdAt: 'asc' }]
OrderedBefore(a, b) ==
  \/ a.priority > b.priority
  \/ a.priority = b.priority /\ a.createdAt <= b.createdAt

FindFirst_AlsoRetrying(q) ==
  {i \in WithStatus(q, "PENDING") \cup WithStatus(q, "RETRYING") :
     \A j \in WithStatus(q, "PENDING") \cup WithStatus(q, "RETRYING") :
        OrderedBefore(rows[i], rows[j])}

\* the rows findFirst may return: the first of the ordered PENDING rows
FindFirst(q) ==
  {i \in WithStatus(q, "PENDING") :
     \A j \in WithStatus(q, "PENDING") : OrderedBefore(rows[i], rows[j])}

NextFind(w, q) ==
  /\ pc[w] = "idle"
  /\ \/ /\ FindFirst(q) = {}
        /\ outcome' = "empty"
        /\ UNCHANGED <<rows, nextId, now, pc, loc, held, lease>>
     \/ \E i \in FindFirst(q) :
          /\ pc' = [pc EXCEPT ![w] = "next_update"]
          /\ loc' = [loc EXCEPT ![w] = [op |-> "next", id |-> i]]
          /\ UNCHANGED <<rows, nextId, now, held, outcome, lease>>

NextData_Touches ==
  [status |-> "PROCESSING", processingStartedAt |-> Some(now), createdAt |-> now]

NextData == [status |-> "PROCESSING", processingStartedAt |-> Some(now)]

NextUpdate(w) ==
  /\ pc[w] = "next_update"
  /\ pc' = [pc EXCEPT ![w] = "idle"]
  /\ loc' = [loc EXCEPT ![w] = NoLocal]
  /\ IF Exists(loc[w].id)
     THEN /\ rows' = [rows EXCEPT ![loc[w].id] = Update(@, NextData)]
          /\ lease' = LeaseAfter(rows', w, loc[w].id)
          /\ held' = [held EXCEPT ![w] = loc[w].id]
          /\ outcome' = "ok"
     ELSE /\ outcome' = "not_found"
          /\ UNCHANGED <<rows, held, lease>>
  /\ UNCHANGED <<nextId, now>>

----
\* peek: the findFirst of next() alone; nothing is written and the caller keeps
\* the row it was shown

Peek(w, q) ==
  /\ pc[w] = "idle"
  /\ \/ /\ FindFirst(q) = {}
        /\ outcome' = "empty"
        /\ loc' = [loc EXCEPT ![w] = NoLocal]
     \/ \E i \in FindFirst(q) :
          /\ outcome' = "ok"
          /\ loc' = [loc EXCEPT ![w] = [op |-> "peek", q |-> q, id |-> i]]
  /\ UNCHANGED <<rows, nextId, now, pc, held, lease>>

----
\* markProcessed: one update by id; an unknown id makes the update throw

MarkProcessedData == [status |-> "PROCESSED", processingCompletedAt |-> Some(now)]

MarkProcessed_Deletes(w, id) ==
  /\ pc[w] = "idle"
  /\ IF Exists(id)
     THEN /\ rows' = [rows EXCEPT ![id] = NoRow]
          /\ lease' = LeaseAfter(rows', w, 0)
          /\ outcome' = "ok"
     ELSE /\ outcome' = "not_found"
          /\ UNCHANGED <<rows, lease>>
  /\ held' = Resolved(w, id)
  /\ UNCHANGED <<nextId, now, pc, loc>>

MarkProcessed_Swallows(w, id) ==
  /\ pc[w] = "idle"
  /\ IF Exists(id)
     THEN /\ rows' = [rows EXCEPT ![id] = Update(@, MarkProcessedData)]
          /\ lease' = LeaseAfter(rows', w, 0)
     ELSE UNCHANGED <<rows, lease>>
  /\ outcome' = "ok"
  /\ held' = Resolved(w, id)
  /\ UNCHANGED <<nextId, now, pc, loc>>

MarkProcessed(w, id) ==
  /\ pc[w] = "idle"
  /\ IF Exists(id)
     THEN /\ rows' = [rows EXCEPT ![id] = Update(@, MarkProcessedData)]
          /\ lease' = LeaseAfter(rows', w, 0)
          /\ outcome' = "ok"
     ELSE /\ outcome' = "not_found"
          /\ UNCHANGED <<rows, lease>>
  /\ held' = Resolved(w, id)
  /\ UNCHANGED <<nextId, now, pc, loc>>

----
\* markFailed: findUnique, then update by id

ShouldRetry_NoLimit(retryable, request) ==
  retryable # Some(FALSE)

ShouldRetry_OffByOne(retryable, request) ==
  retryable # Some(FALSE) /\ request.retryCount <= RetryLimit

ShouldRetry(retryable, request) ==
  retryable # Some(FALSE) /\ request.retryCount < RetryLimit

MarkFailedData_Counts(request, error, retryable) ==
  [status |-> IF ShouldRetry(retryable, request) THEN "RETRYING" ELSE "FAILED",
   retryCount |-> request.retryCount + 1,
   lastError |-> Some(error),
   processingCompletedAt |-> Some(now)]

MarkFailedData(request, error, retryable) ==
  [status |-> IF ShouldRetry(retryable, request) THEN "RETRYING" ELSE "FAILED",
   lastError |-> Some(error),
   processingCompletedAt |-> Some(now)]

MarkFailedFind(w, id, error, retryable) ==
  /\ pc[w] = "idle"
  /\ IF Exists(id)
     THEN /\ pc' = [pc EXCEPT ![w] = "markFailed_update"]
          /\ loc' = [loc EXCEPT ![w] = [op |-> "markFailed", id |-> id, error |-> error,
                                        retryable |-> retryable, request |-> Loaded(rows[id])]]
          /\ UNCHANGED <<rows, nextId, now, held, outcome, lease>>
     ELSE /\ outcome' = "not_found"
          /\ held' = Resolved(w, id)
          /\ UNCHANGED <<rows, nextId, now, pc, loc, lease>>

MarkFailedUpdate(w) ==
  /\ pc[w] = "markFailed_update"
  /\ pc' = [pc EXCEPT ![w] = "idle"]
  /\ loc' = [loc EXCEPT ![w] = NoLocal]
  /\ IF Exists(loc[w].id)
     THEN /\ rows' = [rows EXCEPT ![loc[w].id] =
                         Update(@, MarkFailedData(loc[w].request, loc[w].error, loc[w].retryable))]
          /\ lease' = LeaseAfter(rows', w, 0)
          /\ outcome' = "ok"
     ELSE /\ outcome' = "not_found"
          /\ UNCHANGED <<rows, lease>>
  /\ held' = Resolved(w, loc[w].id)
  /\ UNCHANGED <<nextId, now>>

----
\* retry: findUnique, then update by id

RetryData_Recreates(request, priority) ==
  [status |-> "PENDING",
   priority |-> IF priority = Null THEN request.priority ELSE ValueOf(priority),
   retryCount |-> request.retryCount + 1,
   createdAt |-> now,
   processingStartedAt |-> Null, processingCompletedAt |-> Null]

RetryData_KeepsLeaseStamp(request, priority) ==
  [status |-> "PENDING",
   priority |-> IF priority = Null THEN request.priority ELSE ValueOf(priority),
   retryCount |-> request.retryCount + 1,
   processingCompletedAt |-> Null]

RetryData_DropsOverride(request, priority) ==
  [status |-> "PENDING",
   priority |-> request.priority,
   retryCount |-> request.retryCount + 1,
   processingStartedAt |-> Null, processingCompletedAt |-> Null]

RetryData(request, priority) ==
  [status |-> "PENDING",
   priority |-> IF priority = Null THEN request.priority ELSE ValueOf(priority),
   retryCount |-> request.retryCount + 1,
   processingStartedAt |-> Null,
   processingCompletedAt |-> Null]

RetryFind(w, id, priority) ==
  /\ pc[w] = "idle"
  /\ IF Exists(id)
     THEN /\ pc' = [pc EXCEPT ![w] = "retry_update"]
          /\ loc' = [loc EXCEPT ![w] = [op |-> "retry", id |-> id, priority |-> priority,
                                        request |-> Loaded(rows[id])]]
          /\ UNCHANGED <<rows, nextId, now, held, outcome, lease>>
     ELSE /\ outcome' = "not_found"
          /\ UNCHANGED <<rows, nextId, now, pc, loc, held, lease>>

RetryUpdate(w) ==
  /\ pc[w] = "retry_update"
  /\ pc' = [pc EXCEPT ![w] = "idle"]
  /\ loc' = [loc EXCEPT ![w] = NoLocal]
  /\ IF Exists(loc[w].id)
     THEN /\ rows' = [rows EXCEPT ![loc[w].id] =
                         Update(@, RetryData(loc[w].request, loc[w].priority))]
          /\ lease' = LeaseAfter(rows', w, 0)
          /\ outcome' = "ok"
     ELSE /\ outcome' = "not_found"
          /\ UNCHANGED <<rows, lease>>
  /\ UNCHANGED <<nextId, now, held>>

----
\* getStats: six counts started together by Promise.all, then one findMany of
\* the completed rows; each is a statement of its own and reads the table as it
\* is when it runs

StatsFields == {"total", "pending", "processing", "processed", "failed", "retrying"}

StatusOf ==
  [pending |-> "PENDING", processing |-> "PROCESSING", processed |-> "PROCESSED",
   failed |-> "FAILED", retrying |-> "RETRYING"]

CountWhere_AnyQueue(q, f) ==
  IF f = "total" THEN Cardinality(RowsOf(q))
  ELSE Cardinality({i \in Ids : Exists(i) /\ rows[i].status = StatusOf[f]})

\* count({ where: { queueName } }) and count({ where: { queueName, status } })
CountWhere(q, f) ==
  IF f = "total" THEN Cardinality(RowsOf(q))
  ELSE Cardinality(WithStatus(q, StatusOf[f]))

GetStatsStart(w, q) ==
  /\ pc[w] = "idle"
  /\ pc' = [pc EXCEPT ![w] = "getStats_count"]
  /\ loc' = [loc EXCEPT ![w] = [op |-> "getStats", q |-> q,
                                counts |-> [f \in StatsFields |-> Null]]]
  /\ UNCHANGED <<rows, nextId, now, held, outcome, lease>>

\* one of the counts not yet answered runs
GetStatsCount(w) ==
  /\ pc[w] = "getStats_count"
  /\ \E f \in StatsFields :
       /\ loc[w].counts[f] = Null
       /\ LET counts == [loc[w].counts EXCEPT ![f] = Some(CountWhere(loc[w].q, f))]
          IN  /\ loc' = [loc EXCEPT ![w].counts = counts]
              /\ pc' = [pc EXCEPT ![w] = IF \A g \in StatsFields : counts[g] # Null
                                         THEN "getStats_findMany" ELSE "getStats_count"]
  /\ UNCHANGED <<rows, nextId, now, held, outcome, lease>>

\* where: { queueName, status: 'PROCESSED', both timestamps not null }
Completed(q) ==
  {i \in WithStatus(q, "PROCESSED") :
     rows[i].processingStartedAt # Null /\ rows[i].processingCompletedAt # Null}

\* take: 100, orderBy: { processingCompletedAt: 'desc' }
Recent(q) ==
  {S \in SUBSET Completed(q) :
     /\ Cardinality(S) = IF Cardinality(Completed(q)) < StatsTake
                         THEN Cardinality(Completed(q)) ELSE StatsTake
     /\ \A i \in S, j \in Completed(q) \ S :
          ValueOf(rows[i].processingCompletedAt) >= ValueOf(rows[j].processingCompletedAt)}

RECURSIVE TotalTime(_)
TotalTime(S) ==
  IF S = {} THEN 0
  ELSE LET i == CHOOSE i \in S : TRUE
       IN  ValueOf(rows[i].processingCompletedAt) - ValueOf(rows[i].processingStartedAt)
             + TotalTime(S \ {i})

AvgProcessingTime_ZeroWhenNone(S) ==
  IF S = {} THEN Some(<<0, 1>>) ELSE Some(<<TotalTime(S), Cardinality(S)>>)

\* avgProcessingTime: undefined, or totalTime / length kept as the pair
AvgProcessingTime(S) ==
  IF S = {} THEN Null ELSE Some(<<TotalTime(S), Cardinality(S)>>)

GetStatsFindMany(w) ==
  /\ pc[w] = "getStats_findMany"
  /\ pc' = [pc EXCEPT ![w] = "getStats_return"]
  /\ \E S \in Recent(loc[w].q) :
       loc' = [loc EXCEPT ![w] =
                 [op |-> "getStats", q |-> loc[w].q,
                  stats |-> [f \in StatsFields \cup {"avgProcessingTime"} |->
                               IF f = "avgProcessingTime" THEN AvgProcessingTime(S)
                               ELSE ValueOf(loc[w].counts[f])]]]
  /\ UNCHANGED <<rows, nextId, now, held, outcome, lease>>

GetStatsReturn(w) ==
  /\ pc[w] = "getStats_return"
  /\ pc' = [pc EXCEPT ![w] = "idle"]
  /\ loc' = [loc EXCEPT ![w] = NoLocal]
  /\ outcome' = "ok"
  /\ UNCHANGED <<rows, nextId, now, held, lease>>

----
\* a store error (connection failure, timeout): the statement the process was
\* about to run throws and writes nothing, and no operation catches it but
\* enqueue's P2002.  next() fails inside its $transaction (timeout: 30000), which
\* rolls back; its update is visible to nobody before the commit, so a failed
\* next() is one that ends without the write of NextUpdate.

ErrorOf(w) ==
  IF pc[w] = "next_update" THEN "error in next"
  ELSE IF pc[w] = "markFailed_update" THEN "error in markFailed"
  ELSE IF pc[w] = "retry_update" THEN "error in retry"
  ELSE "error"

StoreError_HalfLeased(w) ==
  /\ outcome' = ErrorOf(w)
  /\ pc' = [pc EXCEPT ![w] = "idle"]
  /\ loc' = [loc EXCEPT ![w] = NoLocal]
  /\ IF pc[w] = "next_update" /\ Exists(loc[w].id)
     THEN /\ rows' = [rows EXCEPT ![loc[w].id] = Update(@, NextData)]
          /\ lease' = LeaseAfter(rows', "none", 0)
     ELSE UNCHANGED <<rows, lease>>
  /\ UNCHANGED <<nextId, now, held>>

StoreError(w) ==
  /\ outcome' = ErrorOf(w)
  /\ pc' = [pc EXCEPT ![w] = "idle"]
  /\ loc' = [loc EXCEPT ![w] = NoLocal]
  /\ UNCHANGED <<rows, nextId, now, held, lease>>

----
\* size and isEmpty: one count of the queue's PENDING rows each; the caller keeps
\* the answer

PendingCount_Unresolved(q) ==
  Cardinality(WithStatus(q, "PENDING") \cup WithStatus(q, "PROCESSING")
                \cup WithStatus(q, "RETRYING"))

\* count({ where: { queueName, status: 'PENDING' } })
PendingCount(q) == Cardinality(WithStatus(q, "PENDING"))

Size(w, q) ==
  /\ pc[w] = "idle"
  /\ loc' = [loc EXCEPT ![w] = [op |-> "size", q |-> q, count |-> PendingCount(q)]]
  /\ outcome' = "ok"
  /\ UNCHANGED <<rows, nextId, now, pc, held, lease>>

IsEmpty(w, q) ==
  /\ pc[w] = "idle"
  /\ loc' = [loc EXCEPT ![w] = [op |-> "isEmpty", q |-> q, empty |-> PendingCount(q) = 0]]
  /\ outcome' = "ok"
  /\ UNCHANGED <<rows, nextId, now, pc, held, lease>>

----
\* remove and clear: one deleteMany each

Remove(q, ids) ==
  /\ rows' = [i \in Ids |-> IF i \in ids /\ i \in RowsOf(q) THEN NoRow ELSE rows[i]]
  /\ lease' = LeaseAfter(rows', "none", 0)
  /\ outcome' = "ok"
  /\ UNCHANGED <<nextId, now, pc, loc, held>>

Clear(q) ==
  /\ rows' = [i \in Ids |-> IF i \in RowsOf(q) THEN NoRow ELSE rows[i]]
  /\ lease' = LeaseAfter(rows', "none", 0)
  /\ outcome' = "ok"
  /\ UNCHANGED <<nextId, now, pc, loc, held>>

----
\* the reclaim sweep of startCleanupInterval: one updateMany

\* where: { queueName, status: 'PROCESSING', processingStartedAt: { lt: cutoffTime } }
Stale_AnyLeased(q) ==
  {i \in RowsOf(q) :
     /\ rows[i].status \in {"PROCESSING", "RETRYING"}
     /\ rows[i].processingStartedAt # Null
     /\ ValueOf(rows[i].processingStartedAt) < now - ProcessingTimeout}

Stale_Inclusive(q) ==
  {i \in WithStatus(q, "PROCESSING") :
     /\ rows[i].processingStartedAt # Null
     /\ ValueOf(rows[i].processingStartedAt) <= now - ProcessingTimeout}

Stale(q) ==
  {i \in WithStatus(q, "PROCESSING") :
     /\ rows[i].processingStartedAt # Null
     /\ ValueOf(rows[i].processingStartedAt) < now - ProcessingTimeout}

SweepData_NoIncrement(r) == [status |-> "RETRYING"]

\* data: { status: 'RETRYING', retryCount: { increment: 1 } }
SweepData(r) == [status |-> "RETRYING", retryCount |-> r.retryCount + 1]

Sweep(q) ==
  /\ rows' = [i \in Ids |-> IF i \in Stale(q) THEN Update(rows[i], SweepData(rows[i])) ELSE rows[i]]
  /\ lease' = LeaseAfter(rows', "none", 0)
  /\ UNCHANGED <<nextId, now, pc, loc, held, outcome>>

----
Init ==
  /\ rows = [i \in Ids |-> NoRow]
  /\ nextId = 1
  /\ now = 0
  /\ pc = [w \in Procs |-> "idle"]
  /\ loc = [w \in Procs |-> NoLocal]
  /\ held = [w \in Procs |-> 0]
  /\ outcome = "ok"
  /\ lease = [i \in Ids |-> {}]

Tick ==
  /\ now < MaxTime
  /\ now' = now + 1
  /\ UNCHANGED <<rows, nextId, pc, loc, held, outcome, lease>>

\* a worker dies or restarts in the middle of a lease and forgets the row
Abandon(w) ==
  /\ pc[w] = "idle"
  /\ held[w] # 0
  /\ held' = [held EXCEPT ![w] = 0]
  /\ UNCHANGED <<rows, nextId, now, pc, loc, outcome, lease>>

\* callers stop retrying and sweeping a row at MaxRetryCount
Below(i) == Exists(i) => rows[i].retryCount < MaxRetryCount

Retryable(i) == Exists(i) /\ rows[i].status \in {"RETRYING", "FAILED"}

\* Spec: workers loop next() -> markProcessed()/markFailed() on the row they were
\* given, or die; retry() is called on rows seen RETRYING or FAILED.
Next ==
  \/ nextId <= LeaseItems /\ Enqueue("tmdb", "u1", Null, Null)
  \/ \E w \in Procs : held[w] = 0 /\ NextFind(w, "tmdb")
  \/ \E w \in Procs : NextUpdate(w)
  \/ \E w \in Procs : held[w] # 0 /\ MarkProcessed(w, held[w])
  \/ \E w \in Procs, r \in {Null, Some(FALSE)} :
        held[w] # 0 /\ MarkFailedFind(w, held[w], "e1", r)
  \/ \E w \in Procs : MarkFailedUpdate(w)
  \/ \E w \in Procs, i \in 1..LeaseItems :
        Retryable(i) /\ Below(i) /\ RetryFind(w, i, Null)
  \/ \E w \in Procs : RetryUpdate(w)
  \/ \E w \in Procs : Abandon(w)
  \/ Clear("tmdb")
  \/ (\A i \in Stale("tmdb") : Below(i)) /\ Sweep("tmdb")
  \/ Tick

Spec == Init /\ [][Next]_vars

\* SpecAnyCall: every operation is called with any id at any time.
NextAnyCall ==
  \/ nextId <= LeaseItems /\ Enqueue("tmdb", "u1", Null, Null)
  \/ \E w \in Procs : NextFind(w, "tmdb")
  \/ \E w \in Procs : NextUpdate(w)
  \/ \E w \in Procs, i \in 1..LeaseItems : MarkProcessed(w, i)
  \/ \E w \in Procs, i \in 1..LeaseItems, r \in {Null, Some(FALSE)} :
        MarkFailedFind(w, i, "e1", r)
  \/ \E w \in Procs : MarkFailedUpdate(w)
  \/ \E w \in Procs, i \in 1..LeaseItems : Below(i) /\ RetryFind(w, i, Null)
  \/ \E w \in Procs : RetryUpdate(w)
  \/ \E w \in Procs : Abandon(w)
  \/ Clear("tmdb")
  \/ (\A i \in Stale("tmdb") : Below(i)) /\ Sweep("tmdb")
  \/ Tick

SpecAnyCall == Init /\ [][NextAnyCall]_vars

\* SpecResolve: one worker loops next() -> markProcessed()/markFailed() or dies,
\* while a retry driver requeues RETRYING and FAILED rows and the sweep runs.
NextResolve ==
  \/ nextId <= ResolveItems /\ Enqueue("tmdb", "u1", Null, Null)
  \/ held["w1"] = 0 /\ NextFind("w1", "tmdb")
  \/ NextUpdate("w1")
  \/ held["w1"] # 0 /\ MarkProcessed("w1", held["w1"])
  \/ \E r \in {Null, Some(FALSE)} :
        held["w1"] # 0 /\ MarkFailedFind("w1", held["w1"], "e1", r)
  \/ MarkFailedUpdate("w1")
  \/ \E i \in 1..ResolveItems : Retryable(i) /\ Below(i) /\ RetryFind("w2", i, Null)
  \/ RetryUpdate("w2")
  \/ Abandon("w1")
  \/ Clear("tmdb")
  \/ (\A i \in Stale("tmdb") : Below(i)) /\ Sweep("tmdb")
  \/ Tick

SpecResolve == Init /\ [][NextResolve]_vars

\* SpecOrder: rows of three priorities are enqueued at different times, next to
\* top-priority rows of another queue, and a worker leases one row after another.
NextOrder ==
  \/ \E p \in {Some(2), Null, Some(9)} :
        nextId <= OrderItems /\ Enqueue("tmdb", "u1", Null, p)
  \/ nextId <= OrderItems /\ Enqueue("tmdb-test", "u1", Null, Some(9))
  \/ NextFind("w1", "tmdb")
  \/ NextUpdate("w1")
  \/ Tick

SpecOrder == Init /\ [][NextOrder]_vars

\* SpecDedup: producers enqueue urls with and without a uniqueKey into two queues;
\* rows are leased, completed, removed and cleared.
NextDedup ==
  \/ \E q \in Queues, u \in {"u1", "u2"}, k \in {Null, Some("x")} :
        nextId <= DedupItems /\ Enqueue(q, u, k, Null)
  \/ held["w1"] = 0 /\ NextFind("w1", "tmdb")
  \/ NextUpdate("w1")
  \/ held["w1"] # 0 /\ MarkProcessed("w1", held["w1"])
  \/ \E q \in Queues, i \in 1..DedupItems : Remove(q, {i})
  \/ \E q \in Queues : Clear(q)

SpecDedup == Init /\ [][NextDedup]_vars

\* SpecSweep: leases in two queues grow old and the sweep of each queue runs.
NextSweep ==
  \/ \E q \in Queues : nextId <= SweepItems /\ Enqueue(q, "u1", Null, Null)
  \/ \E q \in Queues : NextFind("w1", q)
  \/ NextUpdate("w1")
  \/ \E i \in 1..SweepItems : Retryable(i) /\ Below(i) /\ RetryFind("w1", i, Null)
  \/ RetryUpdate("w1")
  \/ \E q \in Queues : (\A i \in Stale(q) : Below(i)) /\ Sweep(q)
  \/ Tick

SpecSweep == Init /\ [][NextSweep]_vars

\* SpecLive: workers loop next() -> markProcessed() or die mid-lease; the sweep
\* timer of the instance fires every cleanupInterval and the clock advances. The
\* timer (setInterval), the clock and the workers' next() loops keep running, so
\* each of their steps is weakly fair; no caller in the repository calls retry().
NextLive ==
  \/ nextId <= LeaseItems /\ Enqueue("tmdb", "u1", Null, Null)
  \/ \E w \in Procs : held[w] = 0 /\ NextFind(w, "tmdb")
  \/ \E w \in Procs : NextUpdate(w)
  \/ \E w \in Procs : held[w] # 0 /\ MarkProcessed(w, held[w])
  \/ \E w \in Procs : Abandon(w)
  \/ (\A i \in Stale("tmdb") : Below(i)) /\ Sweep("tmdb")
  \/ Tick

SpecLive ==
  /\ Init
  /\ [][NextLive]_vars
  /\ WF_vars(Tick)
  /\ WF_vars(Sweep("tmdb"))
  /\ \A w \in Procs : WF_vars(held[w] = 0 /\ NextFind(w, "tmdb"))
  /\ \A w \in Procs : WF_vars(NextUpdate(w))

\* SpecRetry: a worker leases rows and fails them; a retry driver requeues RETRYING
\* and FAILED rows, with and without a priority override.
NextRetry ==
  \/ nextId <= ResolveItems /\ Enqueue("tmdb", "u1", Null, Null)
  \/ held["w1"] = 0 /\ NextFind("w1", "tmdb")
  \/ NextUpdate("w1")
  \/ \E r \in {Null, Some(FALSE)} :
        held["w1"] # 0 /\ MarkFailedFind("w1", held["w1"], "e1", r)
  \/ MarkFailedUpdate("w1")
  \/ \E i \in 1..ResolveItems, p \in {Null, Some(9)} :
        Retryable(i) /\ Below(i) /\ RetryFind("w2", i, p)
  \/ RetryUpdate("w2")

SpecRetry == Init /\ [][NextRetry]_vars

\* SpecGone: rows are removed and cleared while a worker and a retry driver call
\* markProcessed, markFailed and retry with ids of stored, removed and never
\* stored rows.
NextGone ==
  \/ nextId <= ResolveItems /\ Enqueue("tmdb", "u1", Null, Null)
  \/ NextFind("w1", "tmdb")
  \/ NextUpdate("w1")
  \/ \E i \in 1..(ResolveItems + 1) : MarkProcessed("w1", i)
  \/ \E i \in 1..(ResolveItems + 1) : MarkFailedFind("w1", i, "e1", Null)
  \/ MarkFailedUpdate("w1")
  \/ \E i \in 1..(ResolveItems + 1) : Below(i) /\ RetryFind("w2", i, Null)
  \/ RetryUpdate("w2")
  \/ \E i \in 1..ResolveItems : Remove("tmdb", {i})
  \/ Clear("tmdb")

SpecGone == Init /\ [][NextGone]_vars

\* requests with and without a uniqueKey
Requests == [url : {"u1", "u2"}, uniqueKey : {Null, Some("x")}]

Batches == UNION {[1..n -> Requests] : n \in 1..MaxBatch}

\* SpecBatch: producers enqueue requests one by one and in batches.
NextBatch ==
  \/ \E r \in Requests, p \in {Null, Some(9)} :
        nextId <= DedupItems /\ Enqueue("tmdb", r.url, r.uniqueKey, p)
  \/ \E b \in Batches, p \in {Null, Some(9)} :
        nextId + Len(b) - 1 <= DedupItems /\ EnqueueBatch("tmdb", b, p)
  \/ NextFind("w1", "tmdb")
  \/ NextUpdate("w1")

SpecBatch == Init /\ [][NextBatch]_vars

\* the queue instance each process works with
InstanceOf(w) == IF w = "w1" THEN "tmdb" ELSE "tmdb-test"

\* SpecScope: two instances, one per queue name, over the same table. The worker
\* of 'tmdb' leases its rows; the caller of 'tmdb-test' leases its rows and calls
\* markProcessed, markFailed, retry and remove with ids of rows of either queue.
NextScope ==
  \/ \E q \in Queues : nextId <= SweepItems /\ Enqueue(q, "u1", Null, Null)
  \/ \E w \in Procs : held[w] = 0 /\ NextFind(w, InstanceOf(w))
  \/ \E w \in Procs : NextUpdate(w)
  \/ \E i \in 1..SweepItems : MarkProcessed("w2", i)
  \/ \E i \in 1..SweepItems : MarkFailedFind("w2", i, "e1", Null)
  \/ MarkFailedUpdate("w2")
  \/ \E i \in 1..SweepItems : Retryable(i) /\ Below(i) /\ RetryFind("w2", i, Null)
  \/ RetryUpdate("w2")
  \/ \E i \in 1..SweepItems : Remove(InstanceOf("w2"), {i})
  \/ \E w \in Procs : Clear(InstanceOf(w))

SpecScope == Init /\ [][NextScope]_vars

\* SpecLife: every operation that writes, and peek, over rows that grow old:
\* a worker leases and resolves, a retry driver requeues, the sweep runs, rows
\* are removed and the queue is cleared.
NextLife ==
  \/ nextId <= ResolveItems /\ Enqueue("tmdb", "u1", Null, Null)
  \/ held["w1"] = 0 /\ NextFind("w1", "tmdb")
  \/ NextUpdate("w1")
  \/ Peek("w1", "tmdb")
  \/ held["w1"] # 0 /\ MarkProcessed("w1", held["w1"])
  \/ \E r \in {Null, Some(FALSE)} :
        held["w1"] # 0 /\ MarkFailedFind("w1", held["w1"], "e1", r)
  \/ MarkFailedUpdate("w1")
  \/ \E i \in 1..ResolveItems : Retryable(i) /\ Below(i) /\ RetryFind("w2", i, Null)
  \/ RetryUpdate("w2")
  \/ \E i \in 1..ResolveItems : Remove("tmdb", {i})
  \/ Clear("tmdb")
  \/ (\A i \in Stale("tmdb") : Below(i)) /\ Sweep("tmdb")
  \/ Tick

SpecLife == Init /\ [][NextLife]_vars

\* SpecStats: rows of two queues are enqueued, leased, completed, failed and
\* removed, and getStats is called at quiescent points: it starts when no
\* operation is in flight and no operation starts before it has returned.
NextStats ==
  \/ \E q \in Queues :
        pc["w2"] = "idle" /\ nextId <= SweepItems /\ Enqueue(q, "u1", Null, Null)
  \/ \E q \in Queues : pc["w2"] = "idle" /\ held["w1"] = 0 /\ NextFind("w1", q)
  \/ pc["w2"] = "idle" /\ NextUpdate("w1")
  \/ pc["w2"] = "idle" /\ held["w1"] # 0 /\ MarkProcessed("w1", held["w1"])
  \/ \E r \in {Null, Some(FALSE)} :
        pc["w2"] = "idle" /\ held["w1"] # 0 /\ MarkFailedFind("w1", held["w1"], "e1", r)
  \/ pc["w2"] = "idle" /\ MarkFailedUpdate("w1")
  \/ \E q \in Queues, i \in 1..SweepItems : pc["w2"] = "idle" /\ Remove(q, {i})
  \/ \E q \in Queues : pc["w1"] = "idle" /\ GetStatsStart("w2", q)
  \/ GetStatsCount("w2")
  \/ GetStatsFindMany("w2")
  \/ GetStatsReturn("w2")

SpecStats == Init /\ [][NextStats]_vars

\* SpecError: a worker leases, completes and fails rows and a retry driver
\* requeues them, while any statement of either may fail with a store error.
NextError ==
  \/ nextId <= ResolveItems /\ Enqueue("tmdb", "u1", Null, Null)
  \/ held["w1"] = 0 /\ NextFind("w1", "tmdb")
  \/ NextUpdate("w1")
  \/ held["w1"] # 0 /\ MarkProcessed("w1", held["w1"])
  \/ held["w1"] # 0 /\ MarkFailedFind("w1", held["w1"], "e1", Null)
  \/ MarkFailedUpdate("w1")
  \/ \E i \in 1..ResolveItems : Retryable(i) /\ Below(i) /\ RetryFind("w2", i, Null)
  \/ RetryUpdate("w2")
  \/ \E w \in Procs : StoreError(w)

SpecError == Init /\ [][NextError]_vars

\* SpecPeek: requests are enqueued one by one and in batches; a consumer peeks
\* and, when peek showed it a row, calls next() before anything else happens.
NextPeek ==
  \/ \E u \in {"u1", "u2"}, p \in {Null, Some(9)} :
        /\ loc["w1"].op # "peek"
        /\ nextId <= OrderItems
        /\ Enqueue("tmdb", u, Null, p)
  \/ \E b \in Batches :
        /\ loc["w1"].op # "peek"
        /\ nextId + Len(b) - 1 <= OrderItems
        /\ EnqueueBatch("tmdb", b, Null)
  \/ loc["w1"].op # "peek" /\ Peek("w1", "tmdb")
  \/ NextFind("w1", "tmdb")
  \/ NextUpdate("w1")
  \/ loc["w1"].op # "peek" /\ Tick

SpecPeek == Init /\ [][NextPeek]_vars

\* SpecSize: rows of two queues are enqueued, leased, completed and failed while
\* a monitor asks for size() and isEmpty() of either queue.
NextSize ==
  \/ \E q \in Queues : nextId <= SweepItems /\ Enqueue(q, "u1", Null, Null)
  \/ \E q \in Queues : held["w1"] = 0 /\ NextFind("w1", q)
  \/ NextUpdate("w1")
  \/ held["w1"] # 0 /\ MarkProcessed("w1", held["w1"])
  \/ \E r \in {Null, Some(FALSE)} :
        held["w1"] # 0 /\ MarkFailedFind("w1", held["w1"], "e1", r)
  \/ MarkFailedUpdate("w1")
  \/ \E q \in Queues : Size("w2", q)
  \/ \E q \in Queues : IsEmpty("w2", q)

SpecSize == Init /\ [][NextSize]_vars

\* SpecAvg: one row more than getStats takes is enqueued at the start; the rows
\* are leased and completed at different times, some completed without ever
\* being leased; at the last tick a monitor calls getStats between the operations.
NextAvg ==
  \/ pc["w2"] = "idle" /\ now = 0 /\ nextId <= StatsTake + 1
        /\ Enqueue("tmdb", "u1", Null, Null)
  \/ pc["w2"] = "idle" /\ held["w1"] = 0 /\ NextFind("w1", "tmdb")
  \/ pc["w2"] = "idle" /\ NextUpdate("w1")
  \/ \E i \in 1..(StatsTake + 1) :
        pc["w2"] = "idle" /\ Exists(i) /\ MarkProcessed("w1", i)
  \/ pc["w2"] = "idle" /\ Tick
  \/ pc["w1"] = "idle" /\ now = MaxTime /\ GetStatsStart("w2", "tmdb")
  \/ GetStatsCount("w2")
  \/ GetStatsFindMany("w2")
  \/ GetStatsReturn("w2")

SpecAvg == Init /\ [][NextAvg]_vars


\* SpecRequeue: requests arrive over time with the default or a raised
\* priority; one worker leases and fails them, an operator requeues failed
\* rows with retry(), with or without a priority override, up to MaxRequeues
\* times each. Arrivals are spaced: the clock moves on after an arrival, between
\* two leases of the worker.
NextRequeue ==
  \/ \E p \in {Null, Some(9)} :
        /\ pc["w1"] = "idle" /\ pc["w2"] = "idle"
        /\ nextId <= SweepItems
        /\ Enqueue("tmdb", "u1", Null, p)
  \/ pc["w2"] = "idle" /\ held["w1"] = 0 /\ NextFind("w1", "tmdb")
  \/ NextUpdate("w1")
  \/ pc["w2"] = "idle" /\ held["w1"] # 0 /\ MarkFailedFind("w1", held["w1"], "e1", Null)
  \/ MarkFailedUpdate("w1")
  \/ \E i \in 1..SweepItems, p \in {Null, Some(9)} :
        /\ pc["w1"] = "idle"
        /\ Retryable(i) /\ rows[i].retryCount < MaxRequeues
        /\ RetryFind("w2", i, p)
  \/ RetryUpdate("w2")
  \/ /\ pc["w1"] = "idle" /\ pc["w2"] = "idle" /\ held["w1"] = 0
     /\ nextId > 1 /\ rows[nextId - 1].createdAt = now
     /\ Tick

SpecRequeue == Init /\ [][NextRequeue]_vars

----
\* Properties of the queue.

StatusChanged(i) ==
  Exists(i) /\ rows'[i] # NoRow /\ rows'[i].status # rows[i].status

\* C1: no two next() calls hold the same row at once: since a row last left
\* PROCESSING, next() has handed it to at most one caller.
C1_ExclusiveLease ==
  \A i \in Ids : Cardinality(lease[i]) <= 1

\* C2: the row next() selects is a PENDING row of its queue, and no PENDING row of
\* that queue has a higher priority, or the same priority and an earlier createdAt.
C2_NextTakesFirst ==
  [][\A w \in Procs :
       pc[w] = "idle" /\ pc'[w] = "next_update" =>
         LET i == loc'[w].id IN
           /\ Exists(i)
           /\ rows[i].status = "PENDING"
           /\ rows[i].queueName = "tmdb"
           /\ \A j \in Ids :
                Exists(j) /\ rows[j].queueName = "tmdb" /\ rows[j].status = "PENDING" =>
                  /\ rows[j].priority <= rows[i].priority
                  /\ rows[j].priority = rows[i].priority
                       => rows[j].createdAt >= rows[i].createdAt]_vars

\* next() has selected the 0.9 row although a PENDING 0.2 row and a PENDING 0.5 row
\* of the queue were enqueued before it
C2_Witness ==
  \E w \in Procs, i, j, k \in Ids :
    /\ pc[w] = "next_update" /\ loc[w].id = i
    /\ Exists(i) /\ Exists(j) /\ Exists(k)
    /\ rows[i].queueName = "tmdb" /\ rows[j].queueName = "tmdb" /\ rows[k].queueName = "tmdb"
    /\ rows[i].priority = 9 /\ rows[j].priority = 2 /\ rows[k].priority = 5
    /\ rows[j].status = "PENDING" /\ rows[k].status = "PENDING"
    /\ rows[j].createdAt < rows[k].createdAt /\ rows[k].createdAt < rows[i].createdAt

\* C3: at most one row holds a (queueName, uniqueKey) pair with a uniqueKey, and an
\* enqueue of a pair that is already stored ends silently and changes no row.
C3_UniquePair ==
  \A i, j \in Ids :
    (/\ i # j /\ Exists(i) /\ Exists(j)
     /\ rows[i].queueName = rows[j].queueName
     /\ rows[i].uniqueKey # Null)
    => rows[i].uniqueKey # rows[j].uniqueKey

C3_EnqueueIdempotent ==
  /\ []C3_UniquePair
  /\ [][\A q \in Queues, u \in {"u1", "u2"}, k \in {Some("x")} :
         (/\ \E j \in Ids : Exists(j) /\ rows[j].queueName = q /\ rows[j].uniqueKey = k
          /\ Enqueue(q, u, k, Null))
         => rows' = rows /\ nextId' = nextId /\ outcome' = "duplicate"]_vars

\* an enqueue was skipped as a duplicate of the one row with key x in its queue,
\* stored under another url, while the other queue holds the same key too
C3_Witness ==
  /\ outcome = "duplicate"
  /\ \E q \in Queues :
       /\ Cardinality({i \in Ids : Exists(i) /\ rows[i].queueName = q
                                     /\ rows[i].uniqueKey = Some("x")}) = 1
       /\ \E j \in Ids : Exists(j) /\ rows[j].queueName # q /\ rows[j].uniqueKey = Some("x")

\* C4: every status change of a row is an edge of the state machine, made by the
\* operation of that edge: PENDING->PROCESSING by next(), PROCESSING->PROCESSED by
\* markProcessed(), PROCESSING->RETRYING/FAILED by markFailed() or the sweep,
\* RETRYING/FAILED->PENDING by retry().
C4_Edge(i) ==
  LET old == rows[i].status
      new == rows'[i].status
  IN \/ old = "PENDING" /\ new = "PROCESSING" /\ \E w \in Procs : NextUpdate(w)
     \/ old = "PROCESSING" /\ new = "PROCESSED" /\ \E w \in Procs : MarkProcessed(w, i)
     \/ old = "PROCESSING" /\ new \in {"RETRYING", "FAILED"} /\ \E w \in Procs : MarkFailedUpdate(w)
     \/ old = "PROCESSING" /\ new = "RETRYING" /\ Sweep(rows[i].queueName)
     \/ old \in {"RETRYING", "FAILED"} /\ new = "PENDING" /\ \E w \in Procs : RetryUpdate(w)

C4_StateMachine ==
  [][\A i \in Ids : StatusChanged(i) => C4_Edge(i)]_vars

C6_OverLimitIsFailed ==
  \A i \in Ids : Exists(i) /\ rows[i].retryCount > rows[i].maxRetries
                   => rows[i].status = "FAILED"

\* C6 (amended): markFailed enforces the limit: a row it loaded with retryCount at
\* or above maxRetries becomes FAILED.  retry() and the sweep do not enforce it.
C6_MarkFailedEnforcesLimit ==
  [][\A w \in Procs :
       (/\ pc[w] = "markFailed_update"
        /\ MarkFailedUpdate(w)
        /\ Exists(loc[w].id)
        /\ loc[w].request.retryCount >= loc[w].request.maxRetries)
       => rows'[loc[w].id].status = "FAILED"]_vars

\* markFailed has failed a row for good at the limit although it was retryable
C6_Witness ==
  \E i \in Ids : /\ Exists(i)
                 /\ rows[i].status = "FAILED"
                 /\ rows[i].retryCount = rows[i].maxRetries
                 /\ rows[i].lastError # Null

\* C7: the retryCount of a row never decreases.
C7_RetryCountMonotone ==
  [][\A i \in Ids : Exists(i) /\ rows'[i] # NoRow
                      => rows'[i].retryCount >= rows[i].retryCount]_vars

\* C8: markFailed on a row it loaded as PROCESSING sets RETRYING exactly when
\* retryable is not false and the loaded retryCount is below the row's maxRetries,
\* and FAILED otherwise.
C8_MarkFailedOutcome ==
  [][\A w \in Procs :
       (/\ pc[w] = "markFailed_update"
        /\ MarkFailedUpdate(w)
        /\ Exists(loc[w].id)
        /\ loc[w].request.status = "PROCESSING")
       => rows'[loc[w].id].status =
            IF loc[w].retryable # Some(FALSE)
               /\ loc[w].request.retryCount < loc[w].request.maxRetries
            THEN "RETRYING" ELSE "FAILED"]_vars

\* markFailed has acted at the boundary: retryCount = maxRetries - 1 gave RETRYING
C8_Witness ==
  \E i \in Ids : /\ Exists(i)
                 /\ rows[i].status = "RETRYING"
                 /\ rows[i].retryCount = rows[i].maxRetries - 1
                 /\ rows[i].lastError # Null
                 /\ rows[i].processingCompletedAt # Null

\* C9: a sweep of a queue leaves every row of the queue that was PROCESSING with
\* processingStartedAt older than now - processingTimeout RETRYING, with its
\* retryCount one higher.
C9_SweepReclaims ==
  [][\A q \in Queues :
       Sweep(q) =>
         \A i \in Ids :
           (/\ Exists(i)
            /\ rows[i].queueName = q
            /\ rows[i].status = "PROCESSING"
            /\ rows[i].processingStartedAt # Null
            /\ rows[i].processingStartedAt[1] + ProcessingTimeout < now)
           => /\ rows'[i].status = "RETRYING"
              /\ rows'[i].retryCount = rows[i].retryCount + 1]_vars

\* one sweep has reclaimed two stale leases of a queue: both rows are RETRYING
\* with retryCount 1 (was 0) and were never failed by a worker
C9_Witness ==
  \E i, j \in Ids :
    /\ i # j /\ Exists(i) /\ Exists(j)
    /\ rows[i].queueName = rows[j].queueName
    /\ \A k \in {i, j} :
         /\ rows[k].status = "RETRYING"
         /\ rows[k].retryCount = 1
         /\ rows[k].lastError = Null
         /\ rows[k].processingStartedAt # Null
         /\ rows[k].processingStartedAt[1] + ProcessingTimeout < now

\* C10: a RETRYING row is never handed out by next(): no step takes a row from
\* RETRYING to PROCESSING.
C10_RetryingNotLeased ==
  [][\A i \in Ids : Exists(i) /\ rows'[i] # NoRow /\ rows[i].status = "RETRYING"
                      => rows'[i].status # "PROCESSING"]_vars


\* a lease nobody holds any more, old enough for the sweep to reclaim it
AbandonedLease(i) ==
  /\ i \in Stale("tmdb")
  /\ \A w \in Procs : held[w] # i /\ pc[w] = "idle"

\* C11: an abandoned lease does not block its row forever: with the sweep and the
\* workers' next() calls scheduled fairly, the row is eventually handed to some
\* worker again.
C11_AbandonedRedelivered ==
  \A i \in 1..LeaseItems : AbandonedLease(i) ~> (\E w \in Procs : held[w] = i)


\* C12: PROCESSED is terminal: a row that is PROCESSED keeps that status for as
\* long as it is stored; only remove and clear end it.
C12_ProcessedIsTerminal ==
  [][\A i \in Ids : Exists(i) /\ rows[i].status = "PROCESSED" /\ rows'[i] # NoRow
                      => rows'[i].status = "PROCESSED"]_vars


\* C13: sweeps running one after another over the same stale lease reclaim it
\* once: a sweep changes only PROCESSING rows, each by one increment of
\* retryCount into RETRYING, and leaves nothing behind for the next sweep.
C13_SweepReclaimsOnce ==
  [][\A q \in Queues :
       Sweep(q) =>
         \A i \in Ids :
           Exists(i) =>
             /\ rows[i].status # "PROCESSING" => rows'[i] = rows[i]
             /\ rows'[i] # rows[i] =>
                  /\ rows'[i].status = "RETRYING"
                  /\ rows'[i].retryCount = rows[i].retryCount + 1
             /\ ~(/\ rows'[i].queueName = q
                  /\ rows'[i].status = "PROCESSING"
                  /\ rows'[i].processingStartedAt # Null
                  /\ rows'[i].processingStartedAt[1] + ProcessingTimeout < now)]_vars

\* a sweep has reclaimed the stale lease of a queue and left the fresh lease next
\* to it alone; the reclaimed row is still as old as when it was reclaimed
C13_Witness ==
  \E i, j \in Ids :
    /\ Exists(i) /\ Exists(j)
    /\ rows[i].queueName = rows[j].queueName
    /\ rows[i].status = "RETRYING" /\ rows[i].retryCount = 1
    /\ rows[i].lastError = Null
    /\ rows[i].processingStartedAt # Null
    /\ rows[i].processingStartedAt[1] + ProcessingTimeout < now
    /\ rows[j].status = "PROCESSING" /\ rows[j].retryCount = 0


\* C14: retry(id, priority?) on a RETRYING or FAILED row leaves it PENDING with
\* the retryCount it had plus one, both lease timestamps cleared, and the given
\* priority or, when none is given, the priority it had.
C14_RetryRequeues ==
  [][\A w \in Procs :
       (/\ RetryUpdate(w)
        /\ Exists(loc[w].id)
        /\ loc[w].request.status \in {"RETRYING", "FAILED"})
       => LET old == loc[w].request
              new == rows'[loc[w].id]
          IN  /\ new.status = "PENDING"
              /\ new.retryCount = old.retryCount + 1
              /\ new.processingStartedAt = Null
              /\ new.processingCompletedAt = Null
              /\ new.priority = IF loc[w].priority = Null THEN old.priority
                                ELSE loc[w].priority[1]
              /\ \A f \in {"queueName", "url", "uniqueKey", "lastError", "createdAt"} :
                   new[f] = rows[loc[w].id][f]]_vars

\* a failed row was requeued with priority 9 and then requeued again without an
\* override: PENDING, retried twice, still priority 9, no lease timestamps
C14_Witness ==
  \E i \in Ids :
    /\ Exists(i)
    /\ rows[i].status = "PENDING"
    /\ rows[i].retryCount = 2
    /\ rows[i].priority = 9
    /\ rows[i].lastError # Null
    /\ rows[i].processingStartedAt = Null
    /\ rows[i].processingCompletedAt = Null
    /\ outcome = "ok"
    /\ \A w \in Procs : pc[w] = "idle"


\* the call of w ends with the error and no stored row has changed
FailsNotFound(w) ==
  /\ outcome' = "not_found"
  /\ pc'[w] = "idle"
  /\ rows' = rows

\* C15: markProcessed, markFailed and retry called with an id that matches no
\* stored row fail with a not-found error and change no row, also when the row
\* was removed between the read and the write of the call.
C15_UnknownIdFails ==
  [][\A w \in Procs :
       /\ \A i \in Ids :
            rows[i] = NoRow =>
              /\ MarkProcessed(w, i) => FailsNotFound(w)
              /\ \A r \in {Null, Some(FALSE)} :
                   MarkFailedFind(w, i, "e1", r) => FailsNotFound(w)
              /\ \A p \in {Null, Some(9)} : RetryFind(w, i, p) => FailsNotFound(w)
       /\ (pc[w] = "markFailed_update" /\ rows[loc[w].id] = NoRow /\ MarkFailedUpdate(w))
            => FailsNotFound(w)
       /\ (pc[w] = "retry_update" /\ rows[loc[w].id] = NoRow /\ RetryUpdate(w))
            => FailsNotFound(w)]_vars

\* the worker's call has failed with the error, and the row the retry driver
\* loaded was removed before its write
C15_Witness ==
  /\ outcome = "not_found"
  /\ pc["w1"] = "idle"
  /\ pc["w2"] = "retry_update"
  /\ rows[loc["w2"].id] = NoRow
  /\ \A i \in Ids : rows[i] = NoRow


\* C16: enqueueBatch(items, priority) leaves the table as enqueue(item, priority)
\* called for each item in turn would: the same rows are inserted, with the same
\* uniqueKey, priority and status, and the same items are skipped as duplicates.
C16_BatchAsEnqueueEach ==
  [][\A b \in Batches, p \in {Null, Some(9)} :
       EnqueueBatch("tmdb", b, p)
         => rows' = EnqueueEach(rows, nextId, "tmdb", b, p).rows]_vars


\* the rows a step has changed or deleted
Touched == {i \in Ids : Exists(i) /\ rows'[i] # rows[i]}

\* C17: an operation of the instance for queue Q touches rows of Q only, also
\* when it is called with the id of a row stored under another queue (w2, on the
\* instance for 'tmdb-test', is the process that calls by id).
C17_ScopedToQueue ==
  [][/\ \A w \in Procs :
          NextUpdate(w) => \A i \in Touched : rows[i].queueName = InstanceOf(w)
     /\ ((\E i \in Ids : MarkProcessed("w2", i))
           \/ MarkFailedUpdate("w2") \/ RetryUpdate("w2"))
          => \A i \in Touched : rows[i].queueName = InstanceOf("w2")
     /\ \A q \in Queues :
          (Clear(q) \/ \E i \in Ids : Remove(q, {i}))
          => \A i \in Touched : rows[i].queueName = q]_vars


\* C18: markFailed on a stored row records the error text as lastError and stamps
\* processingCompletedAt, whether it chooses RETRYING or FAILED, and leaves the
\* row's retryCount as it is.
C18_MarkFailedRecords ==
  [][\A w \in Procs :
       (/\ pc[w] = "markFailed_update"
        /\ MarkFailedUpdate(w)
        /\ Exists(loc[w].id))
       => LET new == rows'[loc[w].id]
          IN  /\ new.status \in {"RETRYING", "FAILED"}
              /\ new.lastError = <<loc[w].error>>
              /\ new.processingCompletedAt = <<now>>
              /\ new.retryCount = rows[loc[w].id].retryCount]_vars

\* a row leased at time 1 with retryCount 1 was failed for good at time 2:
\* markFailed stamped its own time and kept the retryCount of 1
C18_Witness ==
  \E i \in Ids :
    /\ Exists(i)
    /\ rows[i].status = "FAILED"
    /\ rows[i].retryCount = 1
    /\ rows[i].lastError = <<"e1">>
    /\ rows[i].processingStartedAt = <<1>>
    /\ rows[i].processingCompletedAt = <<2>>


\* C19: rows are destroyed only by remove and clear: a step that deletes a row is
\* a remove or a clear of that row's queue.
C19_OnlyRemoveAndClearDelete ==
  [][\A i \in Ids :
       Exists(i) /\ rows'[i] = NoRow
         => \/ Clear(rows[i].queueName)
            \/ \E ids \in SUBSET Ids : i \in ids /\ Remove(rows[i].queueName, ids)]_vars

\* a row completed long ago is still stored, PROCESSED, after the timeout passed
C19_Witness ==
  \E i \in Ids :
    /\ Exists(i)
    /\ rows[i].status = "PROCESSED"
    /\ rows[i].processingCompletedAt # Null
    /\ rows[i].processingCompletedAt[1] + ProcessingTimeout < now


\* C20: a getStats() that ran at a quiescent point returns five status counts
\* that sum to its total, and its total is the number of rows stored for the
\* queue.
C20_StatsSumToTotal ==
  \A w \in Procs :
    pc[w] = "getStats_return" =>
      LET s == loc[w].stats
      IN  /\ s.pending + s.processing + s.processed + s.failed + s.retrying = s.total
          /\ s.total = Cardinality({i \in Ids : /\ rows[i] # NoRow
                                                /\ rows[i].queueName = loc[w].q})

\* getStats has counted a queue with one row, failed for good, while the other
\* queue holds a completed row
C20_Witness ==
  /\ pc["w2"] = "getStats_return"
  /\ loc["w2"].stats.total = 1
  /\ loc["w2"].stats.failed = 1
  /\ \E i \in Ids : /\ Exists(i)
                     /\ rows[i].queueName # loc["w2"].q
                     /\ rows[i].status = "PROCESSED"


C22_StoreErrorChangesNothing ==
  [][\A w \in Procs :
       StoreError(w) =>
         /\ rows' = rows
         /\ pc'[w] = "idle"
         /\ outcome' \in {"error", "error in next", "error in markFailed", "error in retry"}
         /\ (pc[w] = "next_update" /\ rows[loc[w].id] # NoRow
               /\ rows[loc[w].id].status = "PENDING")
            => /\ rows'[loc[w].id].status = "PENDING"
               /\ rows'[loc[w].id].processingStartedAt = Null
               /\ held'[w] = 0
               /\ outcome' = "error in next"]_vars

\* a next() has failed after selecting the row: the row is PENDING, never leased,
\* and nobody holds it
C22_Witness ==
  /\ outcome = "error in next"
  /\ \A w \in Procs : pc[w] = "idle" /\ held[w] = 0
  /\ \E i \in Ids : /\ Exists(i)
                    /\ rows[i].status = "PENDING"
                    /\ rows[i].retryCount = 0
                    /\ rows[i].processingStartedAt = Null


\* C23: peek() changes no row and agrees with next(): it returns empty exactly
\* when the queue has no PENDING row, and the row it returns is the row a next()
\* that follows it with nothing in between selects.
C23_PeekAgreesWithNext ==
  [][\A w \in Procs :
       /\ \A q \in Queues :
            Peek(w, q) =>
              /\ rows' = rows
              /\ outcome' = "empty" <=>
                   ~\E i \in Ids : /\ rows[i] # NoRow
                                    /\ rows[i].queueName = q
                                    /\ rows[i].status = "PENDING"
       /\ (loc[w].op = "peek" /\ NextFind(w, loc[w].q))
            => /\ pc'[w] = "next_update"
               /\ loc'[w].id = loc[w].id]_vars


\* the PENDING rows stored for queue q
PendingRows(q) ==
  {i \in Ids : rows[i] # NoRow /\ rows[i].queueName = q /\ rows[i].status = "PENDING"}

\* C24: size() is the number of PENDING rows of the queue and isEmpty() is true
\* exactly when there is none; rows of the other statuses are not counted.
C24_SizeCountsPending ==
  [][\A w \in Procs, q \in Queues :
       /\ Size(w, q) => loc'[w].count = Cardinality(PendingRows(q)) /\ rows' = rows
       /\ IsEmpty(w, q) => loc'[w].empty = (PendingRows(q) = {}) /\ rows' = rows]_vars

\* isEmpty() has answered true for a queue that holds a leased row and a row
\* awaiting retry
C24_Witness ==
  \E w \in Procs :
    /\ loc[w].op = "isEmpty"
    /\ loc[w].empty
    /\ \E i, j \in RowsOf(loc[w].q) :
         rows[i].status = "PROCESSING" /\ rows[j].status = "RETRYING"


\* the PROCESSED rows of queue q that carry both lease timestamps
Done(q) ==
  {i \in Ids : /\ rows[i] # NoRow
               /\ rows[i].queueName = q
               /\ rows[i].status = "PROCESSED"
               /\ rows[i].processingStartedAt # Null
               /\ rows[i].processingCompletedAt # Null}

RECURSIVE SumLatency(_)
SumLatency(S) ==
  IF S = {} THEN 0
  ELSE LET i == CHOOSE i \in S : TRUE
       IN  rows[i].processingCompletedAt[1] - rows[i].processingStartedAt[1]
             + SumLatency(S \ {i})

\* C25: getStats() reports the average latency as undefined, not zero, when the
\* queue has no PROCESSED row with both timestamps, and otherwise as the mean
\* (sum over number) of completedAt - startedAt over the most recently completed
\* of these rows, StatsTake of them at most.
C25_AverageLatency ==
  [][\A w \in Procs :
       GetStatsFindMany(w) =>
         LET done == Done(loc[w].q)
             avg == loc'[w].stats.avgProcessingTime
         IN  IF done = {} THEN avg = Null
             ELSE \E S \in SUBSET done :
                    /\ Cardinality(S) = IF Cardinality(done) < StatsTake
                                        THEN Cardinality(done) ELSE StatsTake
                    /\ \A i \in S, j \in done \ S :
                         rows[i].processingCompletedAt[1] >= rows[j].processingCompletedAt[1]
                    /\ avg = <<<<SumLatency(S), Cardinality(S)>>>>]_vars

\* getStats has averaged over the StatsTake latest of more completed rows: the
\* row completed first, the only one with a latency, is left out
C25_Witness ==
  \E w \in Procs :
    /\ pc[w] = "getStats_return"
    /\ Cardinality(Done(loc[w].q)) > StatsTake
    /\ loc[w].stats.avgProcessingTime = <<<<0, StatsTake>>>>
    /\ \E i \in Done(loc[w].q) :
         rows[i].processingCompletedAt[1] > rows[i].processingStartedAt[1]


\* C26: every retry() that completes on a row adds exactly one to the retryCount
\* stored at the moment of its write, so that retries and reclaims add up.
C26_RetryAddsOne ==
  [][\A w \in Procs :
       (pc[w] = "retry_update" /\ rows[loc[w].id] # NoRow /\ RetryUpdate(w))
       => rows'[loc[w].id].retryCount = rows[loc[w].id].retryCount + 1]_vars


\* C27: a successful next() changes one row only: the row it returns becomes
\* PROCESSING with processingStartedAt the current time and keeps every other
\* column; every other row stays as it is.
C27_NextChangesOneRow ==
  [][\A w \in Procs :
       (pc[w] = "next_update" /\ rows[loc[w].id] # NoRow /\ NextUpdate(w))
       => /\ rows'[loc[w].id].status = "PROCESSING"
          /\ rows'[loc[w].id].processingStartedAt = <<now>>
          /\ \A f \in DOMAIN rows[loc[w].id] \ {"status", "processingStartedAt"} :
               rows'[loc[w].id][f] = rows[loc[w].id][f]
          /\ \A j \in Ids \ {loc[w].id} : rows'[j] = rows[j]
          /\ held'[w] = loc[w].id]_vars

\* next() has leased the top-priority row at the last tick and left an older
\* PENDING row of lower priority alone
C27_Witness ==
  \E i, j \in Ids :
    /\ Exists(i) /\ Exists(j)
    /\ rows[i].status = "PROCESSING"
    /\ rows[i].priority = 9
    /\ rows[i].processingStartedAt = <<MaxTime>>
    /\ rows[i].createdAt < MaxTime
    /\ rows[j].status = "PENDING"
    /\ rows[j].queueName = rows[i].queueName
    /\ rows[j].priority < 9
    /\ rows[j].createdAt < rows[i].createdAt
    /\ held["w1"] = i


\* C28: a reclaim sweep changes only rows of its own queue that are PROCESSING
\* with processingStartedAt strictly earlier than now minus the processing
\* timeout; a lease no older than the timeout, and every row in another status
\* or another queue, is left as it is.
C28_SweepFrame ==
  [][\A q \in Queues :
       Sweep(q) =>
         \A i \in Ids :
           rows'[i] # rows[i] =>
             /\ Exists(i)
             /\ rows[i].queueName = q
             /\ rows[i].status = "PROCESSING"
             /\ rows[i].processingStartedAt # Null
             /\ rows[i].processingStartedAt[1] < now - ProcessingTimeout]_vars

\* a sweep has reclaimed a lease older than the timeout while the lease next to
\* it, exactly as old as the timeout, is still held
C28_Witness ==
  \E i, j \in Ids :
    /\ Exists(i) /\ Exists(j)
    /\ rows[i].queueName = rows[j].queueName
    /\ rows[i].status = "RETRYING" /\ rows[i].retryCount = 1
    /\ rows[i].processingStartedAt # Null
    /\ rows[i].processingStartedAt[1] < now - ProcessingTimeout
    /\ rows[j].status = "PROCESSING" /\ rows[j].retryCount = 0
    /\ rows[j].processingStartedAt = <<now - ProcessingTimeout>>


\* C29: enqueue of a request without a uniqueKey always inserts a new PENDING
\* row with retryCount 0 and changes no stored row, whatever the queue already
\* holds: two such calls with the same url leave two rows.
C29_KeylessEnqueueInserts ==
  [][\A q \in Queues, u \in {"u1", "u2"} :
       Enqueue(q, u, Null, Null) =>
         /\ nextId' = nextId + 1
         /\ rows[nextId] = NoRow
         /\ rows'[nextId] # NoRow
         /\ rows'[nextId].queueName = q
         /\ rows'[nextId].url = u
         /\ rows'[nextId].uniqueKey = Null
         /\ rows'[nextId].status = "PENDING"
         /\ rows'[nextId].retryCount = 0
         /\ \A j \in Ids \ {nextId} : rows'[j] = rows[j]
         /\ outcome' = "ok"]_vars

\* two keyless enqueues of one url into one queue have left two PENDING rows
C29_Witness ==
  \E i, j \in Ids :
    /\ i # j /\ Exists(i) /\ Exists(j)
    /\ rows[i].queueName = rows[j].queueName
    /\ rows[i].url = rows[j].url
    /\ rows[i].uniqueKey = Null /\ rows[j].uniqueKey = Null
    /\ rows[i].status = "PENDING" /\ rows[j].status = "PENDING"
    /\ rows[i].retryCount = 0 /\ rows[j].retryCount = 0
    /\ nextId = j + 1
    /\ outcome = "ok"


\* C30: retry() leaves createdAt as it was, and without an override the
\* priority too, so the requeued row stands where it stood: while it is PENDING
\* next() selects no row of the same priority that was created later.
C30_RequeuedKeepsPlace ==
  /\ [][\A w \in Procs :
          (pc[w] = "retry_update" /\ rows[loc[w].id] # NoRow /\ RetryUpdate(w))
          => /\ rows'[loc[w].id].status = "PENDING"
             /\ rows'[loc[w].id].createdAt = rows[loc[w].id].createdAt
             /\ loc[w].priority = Null
                  => rows'[loc[w].id].priority = rows[loc[w].id].priority]_vars
  /\ [][\A w \in Procs :
          pc[w] = "idle" /\ pc'[w] = "next_update" =>
            \A r \in Ids :
              (/\ Exists(r)
               /\ rows[r].queueName = "tmdb"
               /\ rows[r].status = "PENDING"
               /\ rows[r].retryCount > 0
               /\ rows[r].priority = rows[loc'[w].id].priority)
              => rows[loc'[w].id].createdAt <= rows[r].createdAt]_vars

\* next() has selected a requeued row ahead of a PENDING row of the same
\* priority that was enqueued after it and has never been leased
C30_Witness ==
  \E r, j \in Ids :
    /\ pc["w1"] = "next_update" /\ loc["w1"].id = r
    /\ Exists(r) /\ Exists(j)
    /\ rows[r].status = "PENDING" /\ rows[r].retryCount > 0
    /\ rows[j].status = "PENDING" /\ rows[j].retryCount = 0
    /\ rows[j].processingStartedAt = Null
    /\ rows[j].queueName = rows[r].queueName
    /\ rows[j].priority = rows[r].priority
    /\ rows[j].createdAt > rows[r].createdAt
====
